---------------------------- MODULE Spec2Model ----------------------------
(***************************************************************************)
(* Invoice export processor: backend/app/services/processing.py and        *)
(* backend/app/core/openai_client.py.                                      *)
(*                                                                         *)
(* Text is a sequence of one-character strings, so that strip(), upper(),  *)
(* isalpha(), len() and float() are computed and not assumed.  Column      *)
(* labels are compared by equality only and stay TLA+ strings.             *)
(***************************************************************************)
EXTENDS Integers, Sequences, FiniteSets, TLC

VARIABLES
    cache,        \* the lru_cache of get_unit_of_measure_cached: code -> unit
    run,          \* the locals of each process_invoice call in progress, and
                  \* (history) whether a lookup returned before an earlier one
    runsStarted,  \* process_invoice calls started so far
    resolved,     \* history: code -> unit of its first returned lookup
    answered,     \* history: code -> number of its lookups that returned
    redundant,    \* history: codes looked up again after a lookup returned
    dq, du,       \* arguments of a calculate_customs_quantity call
    dres, dpc,    \* its result, and whether the call was made
    produced,     \* history: input file -> the tables finalized from it, in turn
    mheaders,     \* the headers argument of a get_column_mappings call
    mreply,       \* what the chat completion of that call does
    mres, mpc     \* its result, and whether the call was made

mvars == <<mheaders, mreply, mres, mpc>>

vars == <<cache, run, runsStarted, resolved, answered, redundant, dq, du, dres, dpc,
          produced, mvars>>

(***************************************************************************)
(* Bounds of the model.                                                    *)
(***************************************************************************)
\* rows of a raw sheet (preamble, header row and data rows together)
MaxRows == 3
\* requests handled one after the other by the process
MaxRuns == 2
\* largest magnitude of a numeric invoice quantity given to the derivation
MaxQty == 24
\* codes of the two files that are processed at the same time
MaxLookups == 11

(***************************************************************************)
(* Program constants.                                                      *)
(***************************************************************************)
\* ThreadPoolExecutor(max_workers=10)
max_workersTwice == 10 + 10

max_workers == 10
\* @lru_cache(maxsize=1024)
maxsize == 1024
\* stop_after_attempt(3)
stop_after_attemptOneMore == 3 + 1

stop_after_attempt == 3

(***************************************************************************)
(* Python text operations.                                                 *)
(***************************************************************************)
LowerCase == <<"a","b","c","d","e","f","g","h","i","j","k","l","m",
               "n","o","p","q","r","s","t","u","v","w","x","y","z">>
UpperCase == <<"A","B","C","D","E","F","G","H","I","J","K","L","M",
               "N","O","P","Q","R","S","T","U","V","W","X","Y","Z">>
Digits == <<"0","1","2","3","4","5","6","7","8","9">>
Whitespace == {" ", "\t", "\n"}

Range(s) == {s[i] : i \in DOMAIN s}

\* str.upper() on one character
UpperChar(ch) ==
    IF \E i \in DOMAIN LowerCase : LowerCase[i] = ch
    THEN UpperCase[CHOOSE i \in DOMAIN LowerCase : LowerCase[i] = ch]
    ELSE ch

\* str.upper()
upper(s) == [i \in DOMAIN s |-> UpperChar(s[i])]

RECURSIVE lstrip(_)
lstrip(s) == IF s # <<>> /\ Head(s) \in Whitespace THEN lstrip(Tail(s)) ELSE s

RECURSIVE rstrip(_)
rstrip(s) ==
    IF s # <<>> /\ s[Len(s)] \in Whitespace
    THEN rstrip(SubSeq(s, 1, Len(s) - 1))
    ELSE s

\* str.strip()
strip(s) == rstrip(lstrip(s))

\* str.isalpha(): non-empty and every character a letter
isalpha(s) ==
    /\ s # <<>>
    /\ \A i \in DOMAIN s : s[i] \in Range(LowerCase) \cup Range(UpperCase)

(***************************************************************************)
(* Python scalar values, as the cells of a DataFrame hold them: a string,  *)
(* a number, NaN (float nan) or None.                                      *)
(***************************************************************************)
\* A number is n/d in lowest terms (d = 1 for the integers read from a sheet).
Str(s) == [t |-> "str", s |-> s, n |-> 0, d |-> 1]
Num(k) == [t |-> "num", s |-> <<>>, n |-> k, d |-> 1]
NaN == [t |-> "nan", s |-> <<>>, n |-> 0, d |-> 1]
None == [t |-> "none", s |-> <<>>, n |-> 0, d |-> 1]

\* pd.isna(value)
isna(v) == v.t \in {"nan", "none"}

DigitValue(ch) == (CHOOSE i \in DOMAIN Digits : Digits[i] = ch) - 1

RECURSIVE DigitsValue(_)
DigitsValue(s) ==
    IF s = <<>> THEN 0
    ELSE 10 * DigitsValue(SubSeq(s, 1, Len(s) - 1)) + DigitValue(s[Len(s)])

IsDigits(s) == s # <<>> /\ \A i \in DOMAIN s : s[i] \in Range(Digits)

RECURSIVE DecimalText(_)
DecimalText(k) ==
    IF k < 10 THEN <<Digits[k + 1]>>
    ELSE DecimalText(k \div 10) \o <<Digits[(k % 10) + 1]>>

\* str(value), as Series.astype(str) applies it to each cell
str(v) ==
    CASE v.t = "str" -> v.s
      [] v.t = "nan" -> <<"n","a","n">>
      [] v.t = "none" -> <<"N","o","n","e">>
      [] v.t = "num" ->
           IF v.n < 0 THEN <<"-">> \o DecimalText(-v.n) ELSE DecimalText(v.n)


RECURSIVE GCD(_, _)
GCD(a, b) == IF b = 0 THEN a ELSE GCD(b, a % b)

Abs(k) == IF k < 0 THEN -k ELSE k

Ratio(n, d) ==
    LET g == GCD(Abs(n), d)
    IN  [t |-> "num", s |-> <<>>, n |-> n \div g, d |-> d \div g]

Zero == Ratio(0, 1)

\* float(value): [ok |-> FALSE] stands for ValueError / TypeError.  Text is
\* accepted when, stripped, it is an optionally signed run of digits or the
\* word nan in any letter case.
float(v) ==
    CASE v.t = "num" -> [ok |-> TRUE, value |-> v]
      [] v.t = "nan" -> [ok |-> TRUE, value |-> NaN]
      [] v.t = "none" -> [ok |-> FALSE, value |-> Zero]
      [] v.t = "str" ->
           LET body == strip(v.s)
               signed == body # <<>> /\ Head(body) \in {"+", "-"}
               mag == IF signed THEN Tail(body) ELSE body
           IN  IF IsDigits(mag)
               THEN [ok |-> TRUE,
                     value |-> Ratio(IF signed /\ Head(body) = "-"
                                     THEN -DigitsValue(mag)
                                     ELSE DigitsValue(mag), 1)]
               ELSE IF upper(mag) = <<"N","A","N">>
               THEN [ok |-> TRUE, value |-> NaN]
               ELSE [ok |-> FALSE, value |-> Zero]

(***************************************************************************)
(* Units of measure.                                                       *)
(***************************************************************************)
DOZ == <<"D","O","Z">>
NUM == <<"N","U","M">>
KG == <<"K","G">>
LBS == <<"L","B","S">>

\* unit_factors.get(unit_of_measure, 1)
unit_factorsWrongDozen(unit_of_measure) ==
    CASE unit_of_measure = DOZ -> 1
      [] unit_of_measure = NUM -> 1
      [] unit_of_measure = KG -> 1
      [] unit_of_measure = LBS -> 1
      [] OTHER -> 1

unit_factors(unit_of_measure) ==
    CASE unit_of_measure = DOZ -> 12
      [] unit_of_measure = NUM -> 1
      [] unit_of_measure = KG -> 1
      [] unit_of_measure = LBS -> 1
      [] OTHER -> 1

\* calculate_customs_quantity: [raised, value]; raised is an exception that
\* leaves the function.
calculate_customs_quantity(invoice_quantity, unit_of_measure) ==
    IF isna(invoice_quantity)
    THEN [raised |-> FALSE, value |-> Zero]
    ELSE LET f == float(invoice_quantity)
             factor == unit_factors(unit_of_measure)
         IN  IF ~f.ok
             THEN [raised |-> FALSE, value |-> Zero]
             ELSE IF factor = 0
             THEN [raised |-> FALSE, value |-> Zero]
             ELSE IF f.value.t = "nan"
             THEN [raised |-> FALSE, value |-> NaN]
             ELSE [raised |-> FALSE,
                   value |-> Ratio(f.value.n, f.value.d * factor)]

\* get_unit_of_measure, from the response text to the returned unit
UnitFromResponseNoCheck(content) == upper(strip(content))

UnitFromResponse(content) ==
    LET unit == upper(strip(content))
    IN  IF Len(unit) > 5 \/ ~isalpha(unit) THEN NUM ELSE unit

(***************************************************************************)
(* Column tables.                                                          *)
(***************************************************************************)
\* settings.STANDARD_COLUMNS
STANDARD_COLUMNS == <<
    [standard |-> "Export Invoice #",
     variants |-> <<"Export Invoice #", "Export Document",
                    "Export Invoice Number", "Invoice Number", "Invoice #">>],
    [standard |-> "Product Code",
     variants |-> <<"Style", "Item", "Product Style",
                    "Style/Item/Style/Product Style", "Product Code",
                    "Style Code">>],
    [standard |-> "Description",
     variants |-> <<"Description", "Item Description", "Product Description",
                    "desc", "product_desc", "item_description">>],
    [standard |-> "Invoice Quantity",
     variants |-> <<"Quantity", "QTY", "Invoice Qty", "Qty", "quantity",
                    "Invoice Quantity">>],
    [standard |-> "Total Amount",
     variants |-> <<"Total Amount", "Amount US$", "Amount", "Total", "total",
                    "total_price", "amount", "Price">>],
    [standard |-> "HS Code",
     variants |-> <<"HS Code", "Customs Nomenclature", "Tariff Code", "HTS",
                    "Harmonized Code">>] >>

\* the variants of one standard column
Variants(standard) ==
    UNION {Range(STANDARD_COLUMNS[i].variants) :
             i \in {j \in DOMAIN STANDARD_COLUMNS :
                      STANDARD_COLUMNS[j].standard = standard}}

\* column_mappings of process_invoice, in dict order
column_mappings == <<
    [source |-> "Style",            target |-> "Product Code"],
    [source |-> "Description",      target |-> "Description"],
    [source |-> "HS code",          target |-> "HS Code"],
    [source |-> "Export Invoice #", target |-> "Export Invoice #"],
    [source |-> "Quantity",         target |-> "Invoice Quantity"],
    [source |-> "Total Amount",     target |-> "Total Amount"] >>

required_columns ==
    <<"Export Invoice #", "Product Code", "Description", "Invoice Quantity",
      "Total Amount", "HS Code">>

output_columns ==
    <<"Export Invoice #", "Product Code", "Description", "Invoice Quantity",
      "Total Amount", "Customs Unit of Measure", "Customs Quantity",
      "HS Code">>

(***************************************************************************)
(* Input sheets.  A sheet is a sequence of rows; a row is blank, a header  *)
(* row (its cells are the column labels of the file, 'EAN Code' among      *)
(* them) or an item row.  Every header row of one file carries the same    *)
(* labels.                                                                 *)
(***************************************************************************)
RowKinds == {"blank", "header", "item"}

RECURSIVE SeqsUpTo(_, _)
SeqsUpTo(S, n) ==
    IF n = 0 THEN {<<>>}
    ELSE LET shorter == SeqsUpTo(S, n - 1)
         IN  shorter \cup {Append(q, x) : q \in shorter, x \in S}

Sheets == SeqsUpTo(RowKinds, MaxRows)

\* the sheets that start with their header row and hold no second one
VendorSheets ==
    {<<"header">> \o rows : rows \in SeqsUpTo({"blank", "item"}, MaxRows - 1)}

\* vendor sheets whose item rows spell one code in different ways
SpelledSheets ==
    {<<"header">> \o rows :
        rows \in SeqsUpTo({"upper", "lower", "padded"}, MaxRows - 1) \ {<<>>}}

\* item rows with a code each of their own
NumberedRows ==
    <<"n01", "n02", "n03", "n04", "n05", "n06", "n07", "n08", "n09", "n10",
      "n11", "n12", "n13", "n14">>

RowNumber(kind) == CHOOSE k \in DOMAIN NumberedRows : NumberedRows[k] = kind

\* two vendor files with MaxLookups codes between them, all different
PoolSheets ==
    LET half == (MaxLookups + 1) \div 2
    IN  <<    <<"header">> \o SubSeq(NumberedRows, 1, half),
              <<"header">> \o SubSeq(NumberedRows, half + 1, MaxLookups) >>

DirectHeaders ==
    {"EAN Code", "Style", "Description", "HS code", "Export Invoice #",
     "Quantity", "Total Amount"}

\* label sets of the files offered to the process
HeaderSets ==
    { DirectHeaders,
      DirectHeaders \ {"Export Invoice #"},
      {"EAN Code", "Invoice #", "Item", "Description", "QTY", "Amount",
       "HS Code"},
      {"EAN Code", "Qty", "Amount"} }

\* the text of a column label, for the labels the model reads as text
LabelText(label) ==
    CASE label = "Style" -> <<"S","t","y","l","e">>
      [] label = "Description" ->
           <<"D","e","s","c","r","i","p","t","i","o","n">>
      [] label = "HS code" -> <<"H","S"," ","c","o","d","e">>
      [] label = "Export Invoice #" ->
           <<"E","x","p","o","r","t"," ","I","n","v","o","i","c","e"," ","#">>
      [] label = "Quantity" -> <<"Q","u","a","n","t","i","t","y">>
      [] label = "Total Amount" ->
           <<"T","o","t","a","l"," ","A","m","o","u","n","t">>
      [] label = "Product Code" ->
           <<"P","r","o","d","u","c","t"," ","C","o","d","e">>
      [] label = "Invoice Quantity" ->
           <<"I","n","v","o","i","c","e"," ","Q","u","a","n","t","i","t","y">>
      [] label = "HS Code" -> <<"H","S"," ","C","o","d","e">>
      [] label = "QTY" -> <<"Q","T","Y">>
      [] label = "Qty" -> <<"Q","t","y">>
      [] label = "HTS" -> <<"H","T","S">>
      [] label = "Ref" -> <<"R","e","f">>

\* the cells of an item row
ItemCell(label) ==
    CASE label = "Style" -> Str(<<"A","1">>)
      [] label = "Description" -> Str(<<"W","i","d","g","e","t">>)
      [] label = "HS code" -> Str(<<"1","2","3","4">>)
      [] label = "Export Invoice #" -> Str(<<"I","N","V","1">>)
      [] label = "Quantity" -> Num(24)
      [] label = "Total Amount" -> Num(100)

\* item rows that spell one code in three ways: kind -> the HS code cell
CodeSpellings ==
    [upper  |-> <<"6","1","A">>,
     lower  |-> <<"6","1","a">>,
     padded |-> <<" ","6","1","A"," ">>]

\* the cell of a row under the column `label`
CellOf(kind, label) ==
    CASE kind = "blank" -> NaN
      [] kind = "header" -> Str(LabelText(label))
      [] kind = "item" -> ItemCell(label)
      [] kind \in DOMAIN CodeSpellings ->
           IF label = "HS code" THEN Str(CodeSpellings[kind])
           ELSE ItemCell(label)
      [] kind \in Range(NumberedRows) ->
           IF label = "HS code" THEN Str(DecimalText(6100 + RowNumber(kind)))
           ELSE ItemCell(label)

Sentinel == "EAN Code"

\* 'EAN Code' in row.values
SentinelInRow(kind, header) == kind = "header" /\ Sentinel \in header

(***************************************************************************)
(* process_invoice, the pure parts.                                        *)
(***************************************************************************)
\* the header search of process_invoice: the zero-based index of the first
\* row holding the sentinel, -1 for None
HeaderRowLast(sheet, header) ==
    LET hits == {i \in DOMAIN sheet : SentinelInRow(sheet[i], header)}
    IN  IF hits = {} THEN -1
        ELSE (CHOOSE i \in hits : \A j \in hits : j <= i) - 1

HeaderRow(sheet, header) ==
    LET hits == {i \in DOMAIN sheet : SentinelInRow(sheet[i], header)}
    IN  IF hits = {} THEN -1
        ELSE (CHOOSE i \in hits : \A j \in hits : i <= j) - 1

\* pd.read_excel(temp_path, skiprows=header_row): the labels of the header
\* row and the rows below it
ReadFrame(sheet, header, header_row) ==
    [columns |-> header,
     rows |-> SubSeq(sheet, header_row + 2, Len(sheet))]

\* pd.DataFrame()
EmptyFrame == [columns |-> <<>>, n |-> 0, data |-> <<>>]

\* standardized_df[target_col] = df[source_col]: a frame whose index is
\* still empty takes the index of the assigned column, and the columns it
\* already has are filled with NaN
AssignColumn(sdf, target, col) ==
    IF sdf.n = 0 /\ Len(col) > 0
    THEN [columns |-> Append(sdf.columns, target),
          n |-> Len(col),
          data |-> (target :> col) @@
                   [c \in DOMAIN sdf.data |-> [j \in 1..Len(col) |-> NaN]]]
    ELSE [columns |-> Append(sdf.columns, target),
          n |-> sdf.n,
          data |-> (target :> col) @@ sdf.data]

\* standardized_df[target_col] = None
AssignNone(sdf, target) ==
    [columns |-> Append(sdf.columns, target),
     n |-> sdf.n,
     data |-> (target :> [j \in 1..sdf.n |-> None]) @@ sdf.data]

\* the loop over column_mappings.items(), from its i-th entry on
RECURSIVE ApplyMappings(_, _, _)
ApplyMappings(sdf, df, i) ==
    IF i > Len(column_mappings) THEN sdf
    ELSE LET m == column_mappings[i]
             col == [j \in 1..Len(df.rows) |-> CellOf(df.rows[j], m.source)]
         IN  ApplyMappings(IF m.source \in df.columns
                           THEN AssignColumn(sdf, m.target, col)
                           ELSE AssignNone(sdf, m.target),
                           df, i + 1)

\* standardized_df.empty
empty(sdf) == Len(sdf.columns) = 0 \/ sdf.n = 0

\* [col for col in required_columns if col not in standardized_df.columns]
missing_columns(sdf) ==
    SelectSeq(required_columns, LAMBDA col : col \notin Range(sdf.columns))

\* Series.unique().tolist(): the values in order of first appearance
RECURSIVE unique(_)
unique(s) ==
    IF s = <<>> THEN <<>>
    ELSE LET init == unique(SubSeq(s, 1, Len(s) - 1))
             last == s[Len(s)]
         IN  IF last \in Range(init) THEN init ELSE Append(init, last)

\* standardized_df['HS Code'].astype(str)
CodeColumn(sdf) ==
    [j \in 1..sdf.n |-> str(sdf.data["HS Code"][j])]

\* hs_codes of process_invoice
hs_codesPerRow(sdf) == CodeColumn(sdf)

hs_codes(sdf) == unique(CodeColumn(sdf))

\* one loop.run_in_executor(executor, get_unit_of_measure_cached, hs)
NewTask(hs) ==
    [code |-> hs, st |-> "queued", attempts |-> 0, hit |-> FALSE,
     unit |-> <<>>, defaulted |-> FALSE]

\* dict(zip(hs_codes, units))
zipBackwards(codes, units) ==
    [c \in Range(codes) |->
       units[Len(codes) + 1 - (CHOOSE k \in DOMAIN codes : codes[k] = c)]]

RECURSIVE zip(_, _)
zip(codes, units) ==
    IF codes = <<>> \/ units = <<>> THEN <<>>
    ELSE (codes[Len(codes)] :> units[Len(codes)]) @@
         zip(SubSeq(codes, 1, Len(codes) - 1), units)

\* Series.map(hs_to_unit): NaN for a value that is no key
MapUnits(sdf, hs_to_unit) ==
    [j \in 1..sdf.n |->
       LET hs == str(sdf.data["HS Code"][j])
       IN  IF hs \in DOMAIN hs_to_unit THEN Str(hs_to_unit[hs]) ELSE NaN]

\* the unit_of_measure argument of a row: the text of the cell
UnitArg(cell) == IF cell.t = "str" THEN cell.s ELSE <<>>

\* standardized_df[output_columns]: the listed columns, in the listed order
SelectColumnsAsTheyAre(sdf, cols) == sdf

SelectColumns(sdf, cols) ==
    [columns |-> cols,
     n |-> sdf.n,
     data |-> [c \in Range(cols) |-> sdf.data[c]]]

\* the lru_cache of get_unit_of_measure_cached after a call for `key`
\* returned `value`: every cache the store can leave.  A key stored meanwhile
\* is kept; a full cache drops an entry first.
CachePutNothing(c, key, value) == {c}

CachePut(c, key, value) ==
    IF key \in DOMAIN c THEN {c}
    ELSE IF Cardinality(DOMAIN c) < maxsize
    THEN {(key :> value) @@ c}
    ELSE {(key :> value) @@ [k \in DOMAIN c \ {victim} |-> c[k]] :
            victim \in DOMAIN c}

\* the texts the unit classifier answers with
Responses ==
    { <<" ","d","o","z","\n">>,
      <<"P","C","S">>,
      <<"P","I","E","C","E","S">>,
      <<"1","2">> }

\* what get_unit_of_measure returns for each of them, and whether that is
\* the default put in place of the response
ResponseUnits ==
    [content \in Responses |->
       [unit |-> UnitFromResponse(content),
        defaulted |-> UnitFromResponse(content) # upper(strip(content))]]

\* the answer " doz\n"
DozenResponse == <<" ","d","o","z","\n">>

(***************************************************************************)
(* The process: requests to POST /api/process, each one call of            *)
(* process_invoice, the worker threads of the executor, and the cache.     *)
(***************************************************************************)
Runs == {1, 2}

NoError == [kind |-> "", columns |-> <<>>]

IdleRun ==
    [pc |-> "idle", sheet |-> <<>>, header |-> {}, header_row |-> -1,
     standardized_df |-> EmptyFrame, hs_codes |-> <<>>, tasks |-> <<>>,
     hs_to_unit |-> <<>>, error |-> NoError, overtaken |-> FALSE,
     temp_path |-> FALSE, temp_file |-> "none",
     output_path |-> FALSE, output_file |-> "none", uploaded |-> FALSE]

\* the locals of a call whose file has been downloaded and saved: the
\* temporary input file exists and temp_path names it
SavedRun == [IdleRun EXCEPT !.temp_path = TRUE, !.temp_file = "exists"]

\* the finally clause: a temporary file is removed if the local that names
\* it is bound and the file exists (os.unlink is taken to succeed)
CleanUp(rec) ==
    [rec EXCEPT !.temp_file = IF rec.temp_path /\ @ = "exists"
                              THEN "removed" ELSE @,
                !.output_file = IF rec.output_path /\ @ = "exists"
                                THEN "removed" ELSE @]

pcOf(r) == run[r].pc

Set(r, rec) == run' = [run EXCEPT ![r] = rec]

\* an exception leaves process_invoice through the finally clause
RaiseFrom(rec, kind, columns) ==
    CleanUp([rec EXCEPT !.pc = "failed",
                        !.error = [kind |-> kind, columns |-> columns]])

Raise(r, kind, columns) == Set(r, RaiseFrom(run[r], kind, columns))

\* tasks a worker thread is executing, over all calls
Running ==
    UNION {{<<r, i>> : i \in {k \in DOMAIN run[r].tasks :
                                 run[r].tasks[k].st = "running"}} :
           r \in Runs}

Settled(r) == \A i \in DOMAIN run[r].tasks : run[r].tasks[i].st \in {"done", "raised"}

NoCall == dq = None /\ du = <<>> /\ dres = [raised |-> FALSE, value |-> Zero]
             /\ dpc = "off"

NoMapping ==
    /\ mheaders = <<>>
    /\ mreply = [raises |-> FALSE, content |-> <<>>]
    /\ mres = [raised |-> FALSE, value |-> <<>>]
    /\ mpc = "off"

Init ==
    /\ cache = <<>>
    /\ run = [r \in Runs |-> IdleRun]
    /\ runsStarted = 0
    /\ resolved = <<>>
    /\ answered = <<>>
    /\ redundant = {}
    /\ produced = <<>>
    /\ NoCall
    /\ NoMapping

\* the first request to a fresh process arrives: the file, any of Sheets
\* under any of HeaderSets, is downloaded and read with header=None
Start(r) ==
    /\ pcOf(r) = "idle"
    /\ runsStarted = 0
    /\ \E sheet \in Sheets, header \in HeaderSets :
         Set(r, [SavedRun EXCEPT !.pc = "locate", !.sheet = sheet,
                                !.header = header])
    /\ runsStarted' = runsStarted + 1
    /\ UNCHANGED <<cache, resolved, answered, redundant, dq, du, dres, dpc,
                   produced, mvars>>

\* a request for a file of the vendor whose labels process_invoice knows
StartVendorFile(r) ==
    /\ pcOf(r) = "idle"
    /\ runsStarted < MaxRuns
    /\ \E sheet \in VendorSheets :
         Set(r, [SavedRun EXCEPT !.pc = "locate", !.sheet = sheet,
                                !.header = DirectHeaders])
    /\ runsStarted' = runsStarted + 1
    /\ UNCHANGED <<cache, resolved, answered, redundant, dq, du, dres, dpc,
                   produced, mvars>>

\* the first request to a fresh process, for a file of SpelledSheets
StartSpelledFile(r) ==
    /\ pcOf(r) = "idle"
    /\ runsStarted = 0
    /\ \E sheet \in SpelledSheets :
         Set(r, [SavedRun EXCEPT !.pc = "locate", !.sheet = sheet,
                                !.header = DirectHeaders])
    /\ runsStarted' = runsStarted + 1
    /\ UNCHANGED <<cache, resolved, answered, redundant, dq, du, dres, dpc,
                   produced, mvars>>

\* the search for the header row
LocateHeader(r) ==
    /\ pcOf(r) = "locate"
    /\ LET header_row == HeaderRow(run[r].sheet, run[r].header)
       IN  IF header_row = -1
           THEN Raise(r, "HeaderNotFound", <<>>)
           ELSE Set(r, [run[r] EXCEPT !.pc = "map", !.header_row = header_row])
    /\ UNCHANGED <<cache, runsStarted, resolved, answered, redundant, dq, du, dres, dpc,
                   produced, mvars>>

\* the second read and the direct column mappings
MapColumns(r) ==
    /\ pcOf(r) = "map"
    /\ LET df == ReadFrame(run[r].sheet, run[r].header, run[r].header_row)
       IN  Set(r, [run[r] EXCEPT !.pc = "validate",
                     !.standardized_df = ApplyMappings(EmptyFrame, df, 1)])
    /\ UNCHANGED <<cache, runsStarted, resolved, answered, redundant, dq, du, dres, dpc,
                   produced, mvars>>

\* the checks for data and for the required columns
Validate(r) ==
    /\ pcOf(r) = "validate"
    /\ LET sdf == run[r].standardized_df
       IN  IF empty(sdf)
           THEN Raise(r, "NoData", <<>>)
           ELSE IF missing_columns(sdf) # <<>>
           THEN Raise(r, "MissingRequiredColumns", missing_columns(sdf))
           ELSE Set(r, [run[r] EXCEPT !.pc = "resolve"])
    /\ UNCHANGED <<cache, runsStarted, resolved, answered, redundant, dq, du, dres, dpc,
                   produced, mvars>>

\* one task per entry of hs_codes is handed to the executor
Dispatch(r) ==
    /\ pcOf(r) = "resolve"
    /\ LET codes == hs_codes(run[r].standardized_df)
       IN  Set(r, [run[r] EXCEPT !.pc = "gather", !.hs_codes = codes,
                     !.tasks = [i \in DOMAIN codes |-> NewTask(codes[i])]])
    /\ UNCHANGED <<cache, runsStarted, resolved, answered, redundant, dq, du, dres, dpc,
                   produced, mvars>>

\* a worker thread that is free takes the task that has waited longest in
\* the executor's queue: get_unit_of_measure_cached looks the code up in the
\* cache and, on a miss, calls get_unit_of_measure
TaskStart(r, i) ==
    /\ i \in DOMAIN run[r].tasks
    /\ run[r].tasks[i].st = "queued"
    /\ \A j \in 1..(i - 1) : run[r].tasks[j].st # "queued"
    /\ Cardinality(Running) < max_workers
    /\ LET hs == run[r].tasks[i].code
       IN  IF hs \in DOMAIN cache
           THEN /\ Set(r, [run[r] EXCEPT !.tasks[i].st = "done",
                                         !.tasks[i].hit = TRUE,
                                         !.tasks[i].unit = cache[hs]])
                /\ UNCHANGED redundant
           ELSE /\ Set(r, [run[r] EXCEPT !.tasks[i].st = "running"])
                /\ redundant' = IF hs \in DOMAIN resolved
                                THEN redundant \cup {hs} ELSE redundant
    /\ UNCHANGED <<cache, runsStarted, resolved, answered, dq, du, dres, dpc,
                   produced, mvars>>

\* one attempt of get_unit_of_measure raises: tenacity tries again, and
\* raises RetryError after the last attempt
AttemptFails(r, i) ==
    /\ i \in DOMAIN run[r].tasks
    /\ run[r].tasks[i].st = "running"
    /\ LET n == run[r].tasks[i].attempts + 1
       IN  Set(r, [run[r] EXCEPT
                     !.tasks[i].attempts = n,
                     !.tasks[i].st = IF n >= stop_after_attempt
                                     THEN "raised" ELSE "running"])
    /\ UNCHANGED <<cache, runsStarted, resolved, answered, redundant, dq, du, dres, dpc,
                   produced, mvars>>

\* one attempt of get_unit_of_measure gets a response: the unit is returned
\* and lru_cache stores it
AttemptAnswered(r, i, content) ==
    /\ i \in DOMAIN run[r].tasks
    /\ run[r].tasks[i].st = "running"
    /\ LET unit == ResponseUnits[content].unit
           hs == run[r].tasks[i].code
       IN  /\ Set(r, [run[r] EXCEPT
                        !.overtaken =
                            @ \/ \E j \in 1..(i - 1) :
                                    run[r].tasks[j].st = "running",
                        !.tasks[i].attempts = @ + 1,
                        !.tasks[i].st = "done",
                        !.tasks[i].unit = unit,
                        !.tasks[i].defaulted =
                            ResponseUnits[content].defaulted])
           /\ cache' \in CachePut(cache, hs, unit)
           /\ resolved' = IF hs \in DOMAIN resolved THEN resolved
                          ELSE (hs :> unit) @@ resolved
           /\ answered' = IF hs \in DOMAIN answered
                          THEN [answered EXCEPT ![hs] = @ + 1]
                          ELSE (hs :> 1) @@ answered
    /\ UNCHANGED <<runsStarted, redundant, dq, du, dres, dpc,
                   produced, mvars>>

AttemptReturns(r, i) == \E content \in Responses : AttemptAnswered(r, i, content)

\* asyncio.gather returns the units in the order of hs_codes
GatherReturns(r) ==
    /\ pcOf(r) = "gather"
    /\ \A i \in DOMAIN run[r].tasks : run[r].tasks[i].st = "done"
    /\ LET units == [i \in DOMAIN run[r].tasks |-> run[r].tasks[i].unit]
           hs_to_unit == zip(run[r].hs_codes, units)
           sdf == run[r].standardized_df
       IN  Set(r, [run[r] EXCEPT
                     !.pc = "derive",
                     !.hs_to_unit = hs_to_unit,
                     !.standardized_df =
                         [columns |-> Append(sdf.columns,
                                             "Customs Unit of Measure"),
                          n |-> sdf.n,
                          data |-> ("Customs Unit of Measure" :>
                                      MapUnits(sdf, hs_to_unit)) @@ sdf.data]])
    /\ UNCHANGED <<cache, runsStarted, resolved, answered, redundant, dq, du, dres, dpc,
                   produced, mvars>>

\* asyncio.gather raises the exception of a task
GatherRaises(r) ==
    /\ pcOf(r) = "gather"
    /\ \E i \in DOMAIN run[r].tasks : run[r].tasks[i].st = "raised"
    /\ Raise(r, "RetryError", <<>>)
    /\ UNCHANGED <<cache, runsStarted, resolved, answered, redundant, dq, du, dres, dpc,
                   produced, mvars>>

\* standardized_df.apply(calculate_customs_quantity, axis=1)
Derive(r) ==
    /\ pcOf(r) = "derive"
    /\ LET sdf == run[r].standardized_df
           res == [j \in 1..sdf.n |->
                     calculate_customs_quantity(
                         sdf.data["Invoice Quantity"][j],
                         UnitArg(sdf.data["Customs Unit of Measure"][j]))]
       IN  IF \E j \in 1..sdf.n : res[j].raised
           THEN Raise(r, "Exception", <<>>)
           ELSE Set(r, [run[r] EXCEPT
                          !.pc = "finalize",
                          !.standardized_df =
                              [columns |-> Append(sdf.columns,
                                                  "Customs Quantity"),
                               n |-> sdf.n,
                               data |-> ("Customs Quantity" :>
                                           [j \in 1..sdf.n |-> res[j].value])
                                        @@ sdf.data]])
    /\ UNCHANGED <<cache, runsStarted, resolved, answered, redundant, dq, du, dres, dpc,
                   produced, mvars>>

\* standardized_df = standardized_df[output_columns]
Finalize(r) ==
    /\ pcOf(r) = "finalize"
    /\ LET sdf == run[r].standardized_df
       IN  Set(r, [run[r] EXCEPT
                     !.pc = "finalized",
                     !.standardized_df =
                         SelectColumns(sdf, output_columns)])
    /\ LET file == <<run[r].sheet, run[r].header>>
           table == SelectColumns(run[r].standardized_df, output_columns)
       IN  produced' = IF file \in DOMAIN produced
                       THEN [produced EXCEPT ![file] = Append(@, table)]
                       ELSE (file :> <<table>>) @@ produced
    /\ UNCHANGED <<cache, runsStarted, resolved, answered, redundant, dq, du, dres, dpc,
                   mvars>>

\* output_path is bound and the table is written to it
WriteOutput(r) ==
    /\ pcOf(r) = "finalized"
    /\ Set(r, [run[r] EXCEPT !.pc = "written", !.output_path = TRUE,
                             !.output_file = "exists"])
    /\ UNCHANGED <<cache, runsStarted, resolved, answered, redundant, dq, du,
                   dres, dpc, produced, mvars>>

\* output_path is bound and pd.ExcelWriter raises, before or after it has
\* created the file
WriteOutputFails(r) ==
    /\ pcOf(r) = "finalized"
    /\ \E output_file \in {"none", "exists"} :
         Set(r, RaiseFrom([run[r] EXCEPT !.output_path = TRUE,
                                         !.output_file = output_file],
                          "WriteError", <<>>))
    /\ UNCHANGED <<cache, runsStarted, resolved, answered, redundant, dq, du,
                   dres, dpc, produced, mvars>>

\* the written file is uploaded to the storage
Upload(r) ==
    /\ pcOf(r) = "written"
    /\ Set(r, [run[r] EXCEPT !.pc = "uploaded", !.uploaded = TRUE])
    /\ UNCHANGED <<cache, runsStarted, resolved, answered, redundant, dq, du,
                   dres, dpc, produced, mvars>>

\* opening the written file or uploading it raises
UploadFails(r) ==
    /\ pcOf(r) = "written"
    /\ Raise(r, "UploadFailed", <<>>)
    /\ UNCHANGED <<cache, runsStarted, resolved, answered, redundant, dq, du,
                   dres, dpc, produced, mvars>>

\* create_signed_url gives a dict with signedURL: the URL is returned,
\* through the finally clause
Sign(r) ==
    /\ pcOf(r) = "uploaded"
    /\ Set(r, CleanUp([run[r] EXCEPT !.pc = "returned"]))
    /\ UNCHANGED <<cache, runsStarted, resolved, answered, redundant, dq, du,
                   dres, dpc, produced, mvars>>

\* create_signed_url raises or gives something else
SignFails(r) ==
    /\ pcOf(r) = "uploaded"
    /\ Raise(r, "SignedUrlFailed", <<>>)
    /\ UNCHANGED <<cache, runsStarted, resolved, answered, redundant, dq, du,
                   dres, dpc, produced, mvars>>

\* the call is over and its worker threads are through: its locals are gone
Finish(r) ==
    /\ pcOf(r) \in {"returned", "failed"}
    /\ Settled(r)
    /\ Set(r, IdleRun)
    /\ UNCHANGED <<cache, runsStarted, resolved, answered, redundant, dq, du, dres, dpc,
                   produced, mvars>>

\* the requests handled one at a time
Serial == {1}

Step(r) ==
        \/ LocateHeader(r)
        \/ MapColumns(r)
        \/ Validate(r)
        \/ Dispatch(r)
        \/ \E i \in DOMAIN run[r].tasks : TaskStart(r, i)
        \/ \E i \in DOMAIN run[r].tasks : AttemptFails(r, i)
        \/ \E i \in DOMAIN run[r].tasks : AttemptReturns(r, i)
        \/ GatherReturns(r)
        \/ GatherRaises(r)
        \/ Derive(r)
        \/ Finalize(r)
        \/ WriteOutput(r)
        \/ WriteOutputFails(r)
        \/ Upload(r)
        \/ UploadFails(r)
        \/ Sign(r)
        \/ SignFails(r)
        \/ Finish(r)

\* one request to a fresh process
Next == \E r \in Serial : Start(r) \/ Step(r)

Spec == Init /\ [][Next]_vars

\* a request to a fresh process arrives, for any file of Sheets under any
\* of HeaderSets
Request(r) ==
    /\ pcOf(r) = "idle"
    /\ runsStarted = 0
    /\ \E sheet \in Sheets, header \in HeaderSets :
         Set(r, [IdleRun EXCEPT !.pc = "download", !.sheet = sheet,
                                !.header = header])
    /\ runsStarted' = runsStarted + 1
    /\ UNCHANGED <<cache, resolved, answered, redundant, dq, du, dres, dpc,
                   produced, mvars>>

\* the file is fetched from its signed URL
Download(r) ==
    /\ pcOf(r) = "download"
    /\ Set(r, [run[r] EXCEPT !.pc = "save"])
    /\ UNCHANGED <<cache, runsStarted, resolved, answered, redundant, dq, du,
                   dres, dpc, produced, mvars>>

\* the request for the file raises, or raise_for_status does
DownloadFails(r) ==
    /\ pcOf(r) = "download"
    /\ Raise(r, "HTTPError", <<>>)
    /\ UNCHANGED <<cache, runsStarted, resolved, answered, redundant, dq, du,
                   dres, dpc, produced, mvars>>

\* NamedTemporaryFile(delete=False) creates the file, the content is
\* written to it, and then temp_path is bound to its name
SaveInput(r) ==
    /\ pcOf(r) = "save"
    /\ Set(r, [run[r] EXCEPT !.pc = "locate", !.temp_file = "exists",
                             !.temp_path = TRUE])
    /\ UNCHANGED <<cache, runsStarted, resolved, answered, redundant, dq, du,
                   dres, dpc, produced, mvars>>

\* NamedTemporaryFile raises and there is no file, or it has created the
\* file and temp_file.write raises: temp_path is not bound yet
SaveInputFails(r) ==
    /\ pcOf(r) = "save"
    /\ \E temp_file \in {"none", "exists"} :
         Set(r, RaiseFrom([run[r] EXCEPT !.temp_file = temp_file],
                          "OSError", <<>>))
    /\ UNCHANGED <<cache, runsStarted, resolved, answered, redundant, dq, du,
                   dres, dpc, produced, mvars>>

\* one request to a fresh process, from its download on
NextFiles ==
    \E r \in Serial :
        \/ Request(r)
        \/ Download(r)
        \/ DownloadFails(r)
        \/ SaveInput(r)
        \/ SaveInputFails(r)
        \/ Step(r)

SpecFiles == Init /\ [][NextFiles]_vars

\* requests one after the other, the cache living on between them
NextSeq == \E r \in Serial : StartVendorFile(r) \/ Step(r)

SpecSeq == Init /\ [][NextSeq]_vars

\* one request for a file that spells a code in different ways
NextSpelled == \E r \in Serial : StartSpelledFile(r) \/ Step(r)

SpecSpelled == Init /\ [][NextSpelled]_vars

\* request r of two requests that overlap in time: the file PoolSheets[r]
StartPoolFile(r) ==
    /\ pcOf(r) = "idle"
    /\ runsStarted = r - 1
    /\ Set(r, [SavedRun EXCEPT !.pc = "locate", !.sheet = PoolSheets[r],
                              !.header = DirectHeaders])
    /\ runsStarted' = runsStarted + 1
    /\ UNCHANGED <<cache, resolved, answered, redundant, dq, du, dres, dpc,
                   produced, mvars>>

\* two requests at the same time, the classifier answering every first
\* attempt with the same text
NextPool ==
    \E r \in Runs :
        \/ StartPoolFile(r)
        \/ LocateHeader(r)
        \/ MapColumns(r)
        \/ Validate(r)
        \/ Dispatch(r)
        \/ \E i \in DOMAIN run[r].tasks : TaskStart(r, i)
        \/ \E i \in DOMAIN run[r].tasks : AttemptAnswered(r, i, DozenResponse)
        \/ GatherReturns(r)
        \/ Derive(r)
        \/ Finalize(r)
        \/ WriteOutput(r)
        \/ Upload(r)
        \/ Sign(r)
        \/ Finish(r)

\* a step of the executor's worker threads
WorkerStep ==
    \E r \in Runs : \E i \in DOMAIN run[r].tasks :
        TaskStart(r, i) \/ AttemptAnswered(r, i, DozenResponse)

\* the worker threads do not stop while one of them can take a step
SpecPool == Init /\ [][NextPool]_vars /\ WF_vars(WorkerStep)

\* vendor files that hold the code of the item row
RaceSheets == {<<"header", "item">>}

\* a request for a file of RaceSheets, while another request may be under
\* way
StartRaceFile(r) ==
    /\ pcOf(r) = "idle"
    /\ runsStarted < MaxRuns + 1
    /\ runsStarted = 0 => r = 1
    /\ \E sheet \in RaceSheets :
         Set(r, [SavedRun EXCEPT !.pc = "locate", !.sheet = sheet,
                                !.header = DirectHeaders])
    /\ runsStarted' = runsStarted + 1
    /\ UNCHANGED <<cache, resolved, answered, redundant, dq, du, dres, dpc,
                   produced, mvars>>

\* requests that overlap in time and resolve the same code
NextRace ==
    \E r \in Runs :
        \/ StartRaceFile(r)
        \/ LocateHeader(r)
        \/ MapColumns(r)
        \/ Validate(r)
        \/ Dispatch(r)
        \/ \E i \in DOMAIN run[r].tasks : TaskStart(r, i)
        \/ \E i \in DOMAIN run[r].tasks : AttemptFails(r, i)
        \/ \E i \in DOMAIN run[r].tasks : AttemptReturns(r, i)
        \/ GatherReturns(r)
        \/ GatherRaises(r)
        \/ Derive(r)
        \/ Finalize(r)
        \/ WriteOutput(r)
        \/ Upload(r)
        \/ Sign(r)
        \/ Finish(r)

SpecRace == Init /\ [][NextRace]_vars

(***************************************************************************)
(* calculate_customs_quantity on its own: one call with arguments drawn    *)
(* from the scalars a cell can hold.                                       *)
(***************************************************************************)
QuantityTexts ==
    { <<"a","b","c">>, <<>>, <<"2","4">>, <<" ","7"," ">>, <<"-","3">>,
      <<"+","5">>, <<"1"," ","2">>, <<"n","a","n">> }

Quantities ==
    {None, NaN} \cup {Num(k) : k \in (-MaxQty)..MaxQty}
                \cup {Str(text) : text \in QuantityTexts}

UnitArgs == {DOZ, NUM, KG, LBS, <<"X","Y","Z">>, <<"d","o","z">>, <<>>}

InitQty ==
    /\ cache = <<>>
    /\ run = [r \in Runs |-> IdleRun]
    /\ runsStarted = 0
    /\ resolved = <<>>
    /\ answered = <<>>
    /\ redundant = {}
    /\ dq \in Quantities
    /\ du \in UnitArgs
    /\ dres = [raised |-> FALSE, value |-> Zero]
    /\ dpc = "call"
    /\ produced = <<>>
    /\ NoMapping

Call ==
    /\ dpc = "call"
    /\ dres' = calculate_customs_quantity(dq, du)
    /\ dpc' = "done"
    /\ UNCHANGED <<cache, run, runsStarted, resolved, answered, redundant, dq, du,
                   produced, mvars>>

NextQty == Call

SpecQty == InitQty /\ [][NextQty]_vars

(***************************************************************************)
(* get_column_mappings on its own: one call, with the headers of a file    *)
(* and with what the chat completion does (it raises, or it returns a      *)
(* text).  A mapping is a dict from source text to target text.            *)
(***************************************************************************)
\* longest header list given to get_column_mappings
MaxHeaders == 3

RECURSIVE SkipWhitespace(_, _)
SkipWhitespace(s, i) ==
    IF i <= Len(s) /\ s[i] \in Whitespace THEN SkipWhitespace(s, i + 1) ELSE i

RECURSIVE ClosingQuote(_, _)
ClosingQuote(s, j) ==
    IF j > Len(s) THEN 0
    ELSE IF s[j] = "\"" THEN j
    ELSE ClosingQuote(s, j + 1)

\* a JSON string (without escapes) that starts at position i
ParseString(s, i) ==
    IF i > Len(s) \/ s[i] # "\""
    THEN [ok |-> FALSE, value |-> <<>>, next |-> i]
    ELSE LET e == ClosingQuote(s, i + 1)
         IN  IF e = 0
             THEN [ok |-> FALSE, value |-> <<>>, next |-> i]
             ELSE [ok |-> TRUE, value |-> SubSeq(s, i + 1, e - 1),
                   next |-> e + 1]

\* the members of a JSON object from position i on, added to the dict acc;
\* a key met again takes the later value
RECURSIVE ParseMembers(_, _, _)
ParseMembers(s, i, acc) ==
    LET k == ParseString(s, SkipWhitespace(s, i))
        c == SkipWhitespace(s, k.next)
        v == ParseString(s, SkipWhitespace(s, c + 1))
        e == SkipWhitespace(s, v.next)
        dict == (k.value :> v.value) @@ acc
    IN  IF ~k.ok \/ c > Len(s) THEN [ok |-> FALSE, value |-> <<>>]
        ELSE IF s[c] # ":" \/ ~v.ok \/ e > Len(s)
        THEN [ok |-> FALSE, value |-> <<>>]
        ELSE IF s[e] = "}"
        THEN IF SkipWhitespace(s, e + 1) > Len(s)
             THEN [ok |-> TRUE, value |-> dict]
             ELSE [ok |-> FALSE, value |-> <<>>]
        ELSE IF s[e] = ","
        THEN ParseMembers(s, e + 1, dict)
        ELSE [ok |-> FALSE, value |-> <<>>]

\* json.loads, for a text that is an object of string members or is no JSON
\* at all: ok = FALSE stands for JSONDecodeError
json_loads(raw) ==
    LET i == SkipWhitespace(raw, 1)
    IN  IF i > Len(raw) THEN [ok |-> FALSE, value |-> <<>>]
        ELSE IF raw[i] # "{" THEN [ok |-> FALSE, value |-> <<>>]
        ELSE LET j == SkipWhitespace(raw, i + 1)
             IN  IF j <= Len(raw) /\ raw[j] = "}"
                 THEN IF SkipWhitespace(raw, j + 1) > Len(raw)
                      THEN [ok |-> TRUE, value |-> <<>>]
                      ELSE [ok |-> FALSE, value |-> <<>>]
                 ELSE ParseMembers(raw, i + 1, <<>>)

\* the fallback of get_column_mappings: each header that is a variant of a
\* standard column is mapped to the first such standard column
RECURSIVE fallback_mappings(_)
fallback_mappings(hs) ==
    IF hs = <<>> THEN <<>>
    ELSE LET col == hs[Len(hs)]
             rest == fallback_mappings(SubSeq(hs, 1, Len(hs) - 1))
             found == {i \in DOMAIN STANDARD_COLUMNS :
                         col \in Range(STANDARD_COLUMNS[i].variants)}
         IN  IF found = {} THEN rest
             ELSE LET first == CHOOSE i \in found : \A j \in found : i <= j
                  IN  (LabelText(col) :>
                         LabelText(STANDARD_COLUMNS[first].standard)) @@ rest

\* get_column_mappings: [raised, value]; raised is an exception that leaves
\* the function
get_column_mappings(hs, reply) ==
    IF reply.raises THEN [raised |-> TRUE, value |-> <<>>]
    ELSE LET mappings == json_loads(strip(reply.content))
         IN  IF mappings.ok THEN [raised |-> FALSE, value |-> mappings.value]
             ELSE [raised |-> FALSE, value |-> fallback_mappings(hs)]

\* the header lists: non-empty lists without repetition of these labels
MapperLabels == {"QTY", "Qty", "HTS", "Ref"}

HeaderLists ==
    {hs \in SeqsUpTo(MapperLabels, MaxHeaders) :
        /\ hs # <<>>
        /\ \A i, j \in DOMAIN hs : hs[i] = hs[j] => i = j}

Quoted(text) == <<"\"">> \o text \o <<"\"">>

Member(source, target) ==
    Quoted(LabelText(source)) \o <<":", " ">> \o Quoted(LabelText(target))

\* the texts the column classifier answers with
MapperContents ==
    { <<"{">> \o Member("QTY", "Invoice Quantity") \o <<",", " ">>
              \o Member("HTS", "HS Code") \o <<"}", "\n">>,
      <<"{">> \o Member("QTY", "Style") \o <<"}">>,
      <<"{">> \o Member("Ref", "HS Code") \o <<"}">>,
      <<"{">> \o Member("QTY", "Invoice Quantity") \o <<",">>
              \o Member("Qty", "Invoice Quantity") \o <<"}">>,
      <<"{", "}">>,
      <<"S","o","r","r","y",".">> }

MapperReplies ==
    {[raises |-> TRUE, content |-> <<>>]}
    \cup {[raises |-> FALSE, content |-> c] : c \in MapperContents}

InitMapper ==
    /\ cache = <<>>
    /\ run = [r \in Runs |-> IdleRun]
    /\ runsStarted = 0
    /\ resolved = <<>>
    /\ answered = <<>>
    /\ redundant = {}
    /\ produced = <<>>
    /\ NoCall
    /\ mheaders \in HeaderLists
    /\ mreply \in MapperReplies
    /\ mres = [raised |-> FALSE, value |-> <<>>]
    /\ mpc = "call"

CallMapper ==
    /\ mpc = "call"
    /\ mres' = get_column_mappings(mheaders, mreply)
    /\ mpc' = "done"
    /\ UNCHANGED <<cache, run, runsStarted, resolved, answered, redundant, dq, du, dres,
                   dpc, produced, mheaders, mreply>>

NextMapper == CallMapper

SpecMapper == InitMapper /\ [][NextMapper]_vars

(***************************************************************************)
(* The claims.                                                             *)
(***************************************************************************)
TasksOf(r) == run[r].tasks

\* the required fields that no column of the file is mapped to
MissingFields(r) ==
    {f \in Range(required_columns) :
       ~\E i \in DOMAIN column_mappings :
           /\ column_mappings[i].target = f
           /\ column_mappings[i].source \in run[r].header}

\* C1: a run whose header row was located and in which a required field has
\* no source column mapped to it is Failed once validation is over, and has
\* handed no lookup to the executor.  (The claim also names the error; the
\* run that goes on past validation refutes it before any error matters.)
C1_MissingRequiredFails ==
    \A r \in Runs :
        (/\ pcOf(r) \notin {"idle", "locate", "map", "validate"}
         /\ run[r].header_row # -1
         /\ MissingFields(r) # {})
        => /\ pcOf(r) = "failed"
           /\ TasksOf(r) = <<>>

\* every required field has a column of the file whose label is one of the
\* field's variants in STANDARD_COLUMNS
SynonymHeaders(header) ==
    \A i \in DOMAIN required_columns :
        header \cap Variants(required_columns[i]) # {}

\* C2: without the classifier, when every required field has a source column
\* that is literally one of its synonyms, the mapping the run applies maps
\* every required field to such a column.
C2_FallbackMapsSynonyms ==
    \A r \in Runs :
        (/\ pcOf(r) \notin {"idle", "locate", "map"}
         /\ run[r].header_row # -1
         /\ SynonymHeaders(run[r].header))
        => \A i \in DOMAIN required_columns :
             \E s \in run[r].header \cap Variants(required_columns[i]) :
               \E m \in DOMAIN column_mappings :
                 /\ column_mappings[m].source = s
                 /\ column_mappings[m].target = required_columns[i]

\* lookups (calls of get_unit_of_measure) the run has issued for a code
Lookups(r, c) ==
    Cardinality({i \in DOMAIN TasksOf(r) :
                   /\ TasksOf(r)[i].code = c
                   /\ TasksOf(r)[i].st # "queued"
                   /\ ~TasksOf(r)[i].hit})

\* the codes of the rows of a run
RowCodes(r) == Range(CodeColumn(run[r].standardized_df))

\* C3: in a run that starts with a cold cache, never more than one lookup is
\* issued for a code, and once every task of the run has been taken exactly
\* one has been issued for each code of its rows, however many rows carry it.
C3_OneLookupPerCode ==
    \A r \in Runs :
        TasksOf(r) # <<>> =>
          /\ \A c \in RowCodes(r) : Lookups(r, c) <= 1
          /\ (\A i \in DOMAIN TasksOf(r) : TasksOf(r)[i].st # "queued")
             => \A c \in RowCodes(r) : Lookups(r, c) = 1

\* C3 witness: units resolved for a table in which two rows carry one code
C3_Witness ==
    \E r \in Runs :
        /\ pcOf(r) = "derive"
        /\ \E j, k \in 1..run[r].standardized_df.n :
             /\ j # k
             /\ CodeColumn(run[r].standardized_df)[j] =
                CodeColumn(run[r].standardized_df)[k]
             /\ Lookups(r, CodeColumn(run[r].standardized_df)[j]) = 1

\* C4: once a lookup for a code has returned, no later run looks the code up
\* again, and a task served from the cache makes no attempt and gets the unit
\* that lookup returned.
C4_SecondRunHitsCache ==
    /\ redundant = {}
    /\ \A r \in Runs : \A i \in DOMAIN TasksOf(r) :
         TasksOf(r)[i].hit =>
           /\ TasksOf(r)[i].st = "done"
           /\ TasksOf(r)[i].attempts = 0
           /\ TasksOf(r)[i].code \in DOMAIN resolved
           /\ TasksOf(r)[i].unit = resolved[TasksOf(r)[i].code]

\* C4 witness: the second run has a task served from the cache
C4_Witness ==
    /\ runsStarted = 2
    /\ \E r \in Runs : \E i \in DOMAIN TasksOf(r) :
         TasksOf(r)[i].hit /\ TasksOf(r)[i].unit = DOZ

\* C5: a lookup whose attempts have all failed ends with the default unit,
\* and the run does not fail on it.
C5_ExhaustedLookupDefaults ==
    \A r \in Runs :
        /\ run[r].error.kind # "RetryError"
        /\ \A i \in DOMAIN TasksOf(r) :
             (TasksOf(r)[i].attempts >= stop_after_attempt
              /\ TasksOf(r)[i].st # "running")
             => TasksOf(r)[i].st = "done"

ValidUnits == {NUM, DOZ, KG, LBS}

\* the Customs Unit of Measure cells of a run, once the column exists
UnitCells(r) ==
    IF "Customs Unit of Measure" \in Range(run[r].standardized_df.columns)
    THEN Range(run[r].standardized_df.data["Customs Unit of Measure"])
    ELSE {}

Abbreviation(unit) ==
    /\ Len(unit) <= 5
    /\ isalpha(unit)
    /\ upper(unit) = unit

C7_OnlySuccessfulResolutionsCached ==
    \A r \in Runs : \A i \in DOMAIN TasksOf(r) :
        (\/ TasksOf(r)[i].st = "raised"
         \/ TasksOf(r)[i].st = "done" /\ TasksOf(r)[i].defaulted)
        => TasksOf(r)[i].code \notin DOMAIN cache

C9_HeaderLocation ==
    \A r \in Runs :
        pcOf(r) \notin {"idle", "locate"} =>
          LET sheet == run[r].sheet
              at == run[r].header_row + 1
          IN  IF \E i \in DOMAIN sheet : SentinelInRow(sheet[i], run[r].header)
              THEN /\ at \in DOMAIN sheet
                   /\ SentinelInRow(sheet[at], run[r].header)
                   /\ \A j \in 1..(at - 1) :
                        ~SentinelInRow(sheet[j], run[r].header)
              ELSE /\ pcOf(r) = "failed"
                   /\ run[r].error.kind = "HeaderNotFound"
                   /\ run[r].standardized_df = EmptyFrame
                   /\ TasksOf(r) = <<>>

\* C9 witness: a sheet with two rows holding the sentinel, the first of them
\* found below a leading blank row
C9_Witness ==
    \E r \in Runs :
        /\ pcOf(r) = "map"
        /\ run[r].sheet = <<"blank", "header", "header">>
        /\ run[r].header_row = 1

\* the codes of cells that hold nothing
AbsentCodes == {str(NaN), str(None), <<>>}

IsCell(v) == v.t \in {"str", "num", "nan", "none"}

\* C11: the table of a run that reached Finalized has exactly the columns
\* Export Invoice #, Product Code, Description, Invoice Quantity, Total
\* Amount, Customs Unit of Measure, Customs Quantity, HS Code, in that order,
\* and every row holds a cell under each of them; a field the file had no
\* column for holds a null (None or NaN) in every row.
C11_OutputSchema ==
    \A r \in Runs :
        pcOf(r) \in {"finalized", "written", "uploaded", "returned"} =>
          LET sdf == run[r].standardized_df
          IN  /\ sdf.columns =
                   <<"Export Invoice #", "Product Code", "Description",
                     "Invoice Quantity", "Total Amount",
                     "Customs Unit of Measure", "Customs Quantity",
                     "HS Code">>
              /\ DOMAIN sdf.data = Range(sdf.columns)
              /\ sdf.n >= 1
              /\ \A c \in Range(sdf.columns) :
                   /\ DOMAIN sdf.data[c] = 1..sdf.n
                   /\ \A j \in 1..sdf.n : IsCell(sdf.data[c][j])
              /\ \A f \in MissingFields(r) :
                   \A j \in 1..sdf.n : isna(sdf.data[f][j])

\* C11 witness: a finished table of a file that had no Export Invoice #
\* column
C11_Witness ==
    \E r \in Runs :
        /\ pcOf(r) = "finalized"
        /\ "Export Invoice #" \in MissingFields(r)
        /\ run[r].standardized_df.data["Export Invoice #"][1] = None

\* C12: the runs on one input file that finalize a table finalize the same
\* table (same columns, same rows in the same order, same cells), whatever
\* order the lookups of the first of them completed in: the later run finds
\* every code in the cache.
C12_SameInputSameTable ==
    /\ \A file \in DOMAIN produced :
         \A j, k \in DOMAIN produced[file] :
             produced[file][j] = produced[file][k]
    /\ \A r \in Runs :
         (pcOf(r) \in {"gather", "derive", "finalize"}
          /\ <<run[r].sheet, run[r].header>> \in DOMAIN produced)
         => \A i \in DOMAIN TasksOf(r) :
              TasksOf(r)[i].st # "queued" => TasksOf(r)[i].hit

\* C12 witness: a second table finalized from a file of two rows with
\* different codes, every lookup of the second run served from the cache
C12_Witness ==
    \E r \in Runs :
        /\ pcOf(r) = "finalized"
        /\ Len(run[r].hs_codes) >= 2
        /\ \A i \in DOMAIN TasksOf(r) : TasksOf(r)[i].hit
        /\ Len(produced[<<run[r].sheet, run[r].header>>]) = 2

\* the stages of a run, in their order
StageOrder ==
    <<"locate", "map", "validate", "resolve", "gather", "derive", "finalize",
      "finalized", "written", "uploaded", "returned">>

StageIndex(pc) == CHOOSE k \in DOMAIN StageOrder : StageOrder[k] = pc

\* the external calls the tasks of a run have made
Issued(tasks) == [i \in DOMAIN tasks |-> tasks[i].attempts]

\* C13: a run moves from each stage to the next one only, or to Failed; no
\* lookup is handed out before validation has passed; no quantity is derived
\* before every lookup of the run has returned; and a Failed run stays
\* Failed until it is over, issues no further lookup and has no output.
C13_StagesInOrder ==
    [][\A r \in Runs :
         /\ (pcOf(r) \in Range(StageOrder) /\ run'[r].pc # pcOf(r))
            => \/ run'[r].pc = "failed"
               \/ /\ pcOf(r) # "returned"
                  /\ run'[r].pc = StageOrder[StageIndex(pcOf(r)) + 1]
               \/ pcOf(r) = "returned" /\ run'[r].pc = "idle"
         /\ run'[r].pc \in {"idle", "locate", "map", "validate", "resolve"}
            => run'[r].tasks = <<>>
         /\ run'[r].pc \in {"derive", "finalize", "finalized", "written",
                           "uploaded", "returned"}
            => \A i \in DOMAIN run'[r].tasks : run'[r].tasks[i].st = "done"
         /\ pcOf(r) = "failed"
            => /\ run'[r].pc \in {"failed", "idle"}
               /\ run'[r].pc = "failed"
                  => Issued(run'[r].tasks) = Issued(run[r].tasks)
    ]_vars

\* a code trimmed and upper-cased
Normalized(code) == upper(strip(code))

\* C14: two codes that differ only in surrounding whitespace or letter case
\* are one code to the run and to the cache: no run makes external calls
\* in two lookups, and the cache has no two keys, whose codes are equal once
\* trimmed and upper-cased.
C14_CodesNormalized ==
    /\ \A r \in Runs : \A i, j \in DOMAIN TasksOf(r) :
         (/\ TasksOf(r)[i].attempts >= 1
          /\ TasksOf(r)[j].attempts >= 1
          /\ Normalized(TasksOf(r)[i].code) = Normalized(TasksOf(r)[j].code))
         => i = j
    /\ \A k1, k2 \in DOMAIN cache :
         Normalized(k1) = Normalized(k2) => k1 = k2

\* the canonical fields of the schema, as texts
SchemaTargets ==
    {LabelText(STANDARD_COLUMNS[i].standard) : i \in DOMAIN STANDARD_COLUMNS}

HeaderTexts == {LabelText(mheaders[i]) : i \in DOMAIN mheaders}

\* C15: the mapping get_column_mappings returns has no pair whose target is
\* outside the schema and no pair whose source is not one of the headers.
C15_MappingValidated ==
    (mpc = "done" /\ ~mres.raised) =>
        \A source \in DOMAIN mres.value :
            /\ mres.value[source] \in SchemaTargets
            /\ source \in HeaderTexts

\* C16: in the mapping that the synonym matching of get_column_mappings
\* returns, no two source headers map to one canonical field.
C16_OneSourcePerField ==
    (mpc = "done" /\ ~mres.raised /\ ~json_loads(strip(mreply.content)).ok) =>
        \A s1, s2 \in DOMAIN mres.value :
            mres.value[s1] = mres.value[s2] => s1 = s2

\* C17: when the chat completion raises, or answers with text that is no
\* JSON, get_column_mappings does not raise and returns the mapping of the
\* synonym matching.
C17_ClassifierFailureHidden ==
    (mpc = "done" /\ (mreply.raises \/ ~json_loads(strip(mreply.content)).ok))
    => /\ ~mres.raised
       /\ mres.value = fallback_mappings(mheaders)

\* C18: a lookup makes at most 3 external attempts and a task served from
\* the cache makes none; a task attempts again only while its lookup has not
\* returned, one attempt at a time, so an attempt that got an answer is the
\* last one and only a failure after the third attempt ends the lookup
\* without an answer.
C18_AtMostThreeAttempts ==
    /\ [](\A r \in Runs : \A i \in DOMAIN TasksOf(r) :
            /\ TasksOf(r)[i].attempts <= 3
            /\ TasksOf(r)[i].hit => TasksOf(r)[i].attempts = 0
            /\ TasksOf(r)[i].st = "raised" => TasksOf(r)[i].attempts = 3
            /\ (TasksOf(r)[i].st = "done" /\ ~TasksOf(r)[i].hit)
               => TasksOf(r)[i].attempts >= 1)
    /\ [][\A r \in Runs : \A i \in DOMAIN TasksOf(r) :
            (i \in DOMAIN run'[r].tasks
             /\ run'[r].tasks[i].attempts # TasksOf(r)[i].attempts)
            => /\ TasksOf(r)[i].st = "running"
               /\ run'[r].tasks[i].attempts = TasksOf(r)[i].attempts + 1
         ]_vars

\* C18 witness: in one run, a code served from the cache without an attempt
\* and a code answered at the third attempt
C18_Witness ==
    \E r \in Runs : \E i, j \in DOMAIN TasksOf(r) :
        /\ TasksOf(r)[i].hit /\ TasksOf(r)[i].attempts = 0
        /\ TasksOf(r)[j].st = "done" /\ TasksOf(r)[j].attempts = 3

\* lookups that wait in the executor's queue
Waiting ==
    UNION {{<<r, i>> : i \in {k \in DOMAIN run[r].tasks :
                                 run[r].tasks[k].st = "queued"}} :
           r \in Runs}

\* C19: at no time, with two runs under way, are more than 10 lookups in the
\* hands of worker threads; and whenever lookups wait in the executor's
\* queue a time comes when none waits (a lookup leaves the queue only by
\* being started).
C19_PoolWidth ==
    /\ [](Cardinality(Running) <= 10)
    /\ (Waiting # {}) ~> (Waiting = {})

\* C19 witness: 10 lookups of two runs are running and another one waits
C19_Witness ==
    /\ Cardinality(Running) = 10
    /\ \A r \in Runs : \E i \in DOMAIN TasksOf(r) : <<r, i>> \in Running
    /\ \E r \in Runs : \E i \in DOMAIN TasksOf(r) :
         TasksOf(r)[i].st = "queued"

\* the unit the lookup of a run for code c returned
UnitReturnedFor(r, c) ==
    TasksOf(r)[CHOOSE i \in DOMAIN TasksOf(r) : TasksOf(r)[i].code = c].unit

\* C20: once the lookups of a run are gathered, hs_to_unit gives each code
\* the unit that the lookup for this very code returned, and the Customs Unit
\* of Measure of each row is the unit of the code in that row, in whatever
\* order the lookups returned.
C20_UnitsJoinedByCode ==
    \A r \in Runs :
        pcOf(r) \in {"derive", "finalize", "finalized", "written", "uploaded",
                    "returned"} =>
          /\ DOMAIN run[r].hs_to_unit = RowCodes(r)
          /\ \A c \in RowCodes(r) :
               run[r].hs_to_unit[c] = UnitReturnedFor(r, c)
          /\ \A j \in 1..run[r].standardized_df.n :
               run[r].standardized_df.data["Customs Unit of Measure"][j] =
                 Str(UnitReturnedFor(r, CodeColumn(run[r].standardized_df)[j]))

\* C20 witness: units joined for two codes whose lookups returned different
\* units, the later lookup having returned first
C20_Witness ==
    \E r \in Runs :
        /\ pcOf(r) = "derive"
        /\ run[r].overtaken
        /\ \E c1, c2 \in RowCodes(r) :
             run[r].hs_to_unit[c1] # run[r].hs_to_unit[c2]

\* C21: when two runs resolve one uncached code at the same time, at most
\* two lookups of that code return from the classifier (one of them
\* redundant), every run that resolved the code holds a unit for it, the
\* cache holds for the code the one entry that the first returning lookup
\* stored, and no lookup of the code goes to the classifier after that.
C21_RaceOnOneCode ==
    /\ DOMAIN cache = DOMAIN answered
    /\ \A hs \in DOMAIN answered :
         /\ answered[hs] <= 2
         /\ cache[hs] = resolved[hs]
         /\ hs \notin redundant
    /\ \A r \in Runs : \A i \in DOMAIN TasksOf(r) :
         TasksOf(r)[i].st = "done" =>
           /\ TasksOf(r)[i].unit # <<>>
           /\ TasksOf(r)[i].code \in DOMAIN cache
           /\ TasksOf(r)[i].hit =>
                /\ TasksOf(r)[i].attempts = 0
                /\ TasksOf(r)[i].unit = cache[TasksOf(r)[i].code]

\* C21 witness: two lookups of one code have returned, one run still holds
\* the unit its own lookup returned, and a run started later got the code
\* from the cache
C21_Witness ==
    /\ runsStarted = 3
    /\ \E r1 \in Runs, r2 \in Runs :
         \E i \in DOMAIN TasksOf(r1), j \in DOMAIN TasksOf(r2) :
           /\ r1 # r2
           /\ TasksOf(r1)[i].code = TasksOf(r2)[j].code
           /\ TasksOf(r1)[i].st = "done" /\ ~TasksOf(r1)[i].hit
           /\ TasksOf(r2)[j].st = "done" /\ TasksOf(r2)[j].hit
           /\ answered[TasksOf(r1)[i].code] = 2
           /\ TasksOf(r1)[i].unit # TasksOf(r2)[j].unit

\* C22: a run that is over, with a signed URL returned or failed at whatever
\* stage, has left neither its temporary input file nor its temporary output
\* file behind, and a run that returned a signed URL had uploaded the
\* processed file before.
C22_TempFilesRemoved ==
    \A r \in Runs :
        /\ pcOf(r) \in {"returned", "failed"} =>
             /\ run[r].temp_file # "exists"
             /\ run[r].output_file # "exists"
        /\ pcOf(r) = "returned" => run[r].uploaded

=============================================================================
